---- MODULE Spec2Model ----
(***************************************************************************)
(* Model of autoencoder-applications/variational_autoencoder.ipynb:        *)
(* a convolutional variational autoencoder for MNIST built with Keras.     *)
(*                                                                         *)
(*   Spec         the notebook run: configuration (cell 2), model          *)
(*                construction (cell 4), compile and fit (cell 6) with     *)
(*                the epoch / mini-batch / validation loop of vae.fit.     *)
(*   SpecGraph    the compiled graph executed again and again on a batch:  *)
(*                encoder, sampler, decoder, loss (cells 3 to 5).          *)
(*   SpecLoss     neg_variational_lower_bound applied to any small batch.  *)
(*   SpecShape    tensor shapes through create_encoder, sample and         *)
(*                create_decoder for a batch of n images.                  *)
(*   SpecBatches  the mini-batches of the notebook's own run: 60000        *)
(*                images, batch_size 128, 25 epochs.                       *)
(*                                                                         *)
(* Floating point is abstracted.  In Spec a loss is a value of LossVals    *)
(* (two finite values and NaN) and the weights are the count of updates    *)
(* applied to them, since the training loop never looks inside either.     *)
(* In SpecGraph and SpecLoss tensors hold fixed-point numbers.             *)
(***************************************************************************)
EXTENDS Integers, Sequences, FiniteSets, TLC

(***************************************************************************)
(* Bounds of the model                                                     *)
(***************************************************************************)
MaxTrain  == 3      \* x_train holds 1..MaxTrain images
MaxBatch  == 2      \* batch_size ranges over 0..MaxBatch
MaxEpochs == 2      \* epochs ranges over 1..MaxEpochs
ValSize   == 2      \* x_test holds ValSize images
MaxN      == 2      \* SpecLoss scores batches of 1..MaxN examples
MaxRuns   == 2      \* SpecGraph executes the graph MaxRuns times
MaxShapeBatch == 10 \* SpecShape feeds batches of 1..MaxShapeBatch images

\* latent_dim as configured in cell 2; 2 is the notebook's value
LatentDims == {-1, 2}

\* a non-finite loss, kept apart from every finite one
NaN == 0 - 1
LossVals == {1, 2, NaN}

(***************************************************************************)
(* State of the notebook run                                               *)
(***************************************************************************)
VARIABLES
  latent_dim,     \* cell 2
  batch_size,     \* cell 2
  epochs,         \* epochs argument of vae.fit
  x_train,        \* number of training images
  pc,             \* position of the run
  vae,            \* TRUE once Model(x, t_decoded) exists
  params,         \* number of optimizer updates applied to the weights
  epoch,          \* 0-based index of the running epoch
  index_array,    \* the epoch's shuffled order of the training images
  batch_index,    \* 0-based index of the running (training or validation) batch
  fed,            \* fed[i]: how often image i was put in a mini-batch this epoch
  steps,          \* optimizer updates in this epoch
  read_params,    \* value of params the running forward pass has read
  rng,            \* number of epsilon draws taken from the entropy source
  draws,          \* per sampler call, the position of its draw in the entropy stream
  batch_loss,     \* loss of the running batch
  totals,         \* [loss, seen]: running size-weighted sum of batch losses
  epoch_logs,     \* [loss, val_loss] of the running epoch
  history,        \* per finished epoch: what was logged and when
  \* one execution of the compiled graph on a fed batch (SpecLoss, SpecGraph)
  g_pc,           \* position inside the graph execution
  mode,           \* "train" (train_function) or "test" (test_function)
  runs,           \* graph executions completed
  x,              \* the fed image batch: x[i][r][c] is a pixel of example i
  t_mean,         \* module-scope tensor t_mean, as evaluated in this execution
  t_log_var,      \* module-scope tensor t_log_var, as evaluated in this execution
  epsilon,        \* K.random_normal's draw of this execution
  eps_pos,        \* position of that draw in the entropy stream
  g_rng,          \* draws taken from the entropy stream so far
  t,              \* the sampler's output
  t_decoded,      \* the decoder's output
  rc_loss,        \* per-example reconstruction term
  kl_loss,        \* per-example KL term
  loss,           \* the scalar neg_variational_lower_bound returns
  prev,           \* the previous execution's tensors, for comparison
  memo,           \* what encoder and decoder returned under the current weights
  \* shapes along the composed model (SpecShape)
  s_pc,           \* index of the next layer to apply
  s_in,           \* shape of the batch fed to the vae
  s_x,            \* shape of the tensor flowing through the layers
  s_mean,         \* shape of t_mean
  s_log_var,      \* shape of t_log_var
  s_t             \* shape of the sampler's output

vars == <<latent_dim, batch_size, epochs, x_train, pc, vae, params, epoch,
          index_array, batch_index, fed, steps, read_params, rng, draws,
          batch_loss, totals, epoch_logs, history,
          g_pc, mode, runs, x, t_mean, t_log_var, epsilon, eps_pos, g_rng, t,
          t_decoded, rc_loss, kl_loss, loss, prev, memo,
          s_pc, s_in, s_x, s_mean, s_log_var, s_t>>

config == <<latent_dim, batch_size, epochs, x_train>>

runv == <<latent_dim, batch_size, epochs, x_train, pc, vae, params, epoch,
          index_array, batch_index, fed, steps, read_params, rng, draws,
          batch_loss, totals, epoch_logs, history>>

graphv == <<g_pc, mode, runs, x, t_mean, t_log_var, epsilon, eps_pos, g_rng, t,
            t_decoded, rc_loss, kl_loss, loss, prev, memo>>

shapev == <<s_pc, s_in, s_x, s_mean, s_log_var, s_t>>

\* what the notebook run leaves alone in this model
aux == <<graphv, shapev>>

\* Python's None, kept apart from every number of the model
None == 0 - 2

(***************************************************************************)
(* Helpers of the training loop                                            *)
(***************************************************************************)
Min(a, b) == IF a < b THEN a ELSE b

\* np.ceil(size / float(batch_size)) for batch_size > 0
CeilDiv(a, b) == (a + b - 1) \div b

\* number of batches make_batches(size, batch_size) returns
num_batches(size, bs) == CeilDiv(size, bs)

\* faulty variant: consecutive batches overlap by one image
batch_start_overlap(i, bs) == IF i > 0 THEN i * bs - 1 ELSE 0

\* make_batches(size, batch_size)[i] = (i * bs, min(size, (i + 1) * bs))
batch_start(i, bs) == i * bs

\* faulty variant: the end of the slice is not clipped to the size of the data
batch_end_unclipped(size, i, bs) == (i + 1) * bs

\* end of slice i, clipped to the size of the data
batch_end(size, i, bs) == Min(size, (i + 1) * bs)

\* faulty variant: validation and the epoch's log come after the first batch
is_first_batch(i, size, bs) == i = 0

\* "if batch_index == len(batches) - 1": the pass over the data is complete
is_last_batch(i, size, bs) == i = num_batches(size, bs) - 1

\* index_array[batch_start:batch_end] as a set of 0-based positions
batch_positions(size, i, bs) == batch_start(i, bs) .. (batch_end(size, i, bs) - 1)

\* images of the running training batch (index_array is 1-based here)
batch_ids(arr, size, i, bs) == {arr[p + 1] : p \in batch_positions(size, i, bs)}

\* np.random.shuffle(index_array): any permutation of 1..n
Permutations_(n) ==
  {f \in [1..n -> 1..n] : \A i, j \in 1..n : f[i] = f[j] => i = j}

\* size-weighted accumulation of a batch loss (NaN is absorbing)
Accumulate(tot, l, n) ==
  [loss |-> IF tot.loss = NaN \/ l = NaN THEN NaN ELSE tot.loss + l * n,
   seen |-> tot.seen + n]

\* totals / seen at the end of a pass
Average(tot) == IF tot.loss = NaN THEN NaN ELSE tot.loss \div tot.seen

ZeroTotals == [loss |-> 0, seen |-> 0]

\* epoch_logs = {} at the start of an epoch; val_read collects the values of
\* params the validation forward passes have read
NoLogs == [loss |-> None, val_loss |-> None, val_read |-> {}]

\* faulty variant: K.random_normal hands out the draw it made before
next_draw_cached(r) == r

\* K.random_normal is evaluated anew in every execution of the graph: each
\* call takes the next draw of the entropy stream
next_draw(r) == r + 1

\* faulty variant: a TerminateOnNaN / early-stopping callback were installed
stop_training_on_nan(logs) == logs.loss = NaN \/ logs.val_loss = NaN

\* vae.fit passes no callbacks: nothing ever sets model.stop_training
stop_training(logs) == FALSE

(***************************************************************************)
(* Initial state: cell 2 has run, with some configuration                  *)
(***************************************************************************)
\* nothing evaluated yet under the current weights
NoMemo == [enc |-> {}, dec |-> {}]

\* no graph execution under way
GraphIdle ==
  /\ g_pc = "idle"
  /\ mode = "none"
  /\ runs = 0
  /\ x = <<>>
  /\ t_mean = <<>>
  /\ t_log_var = <<>>
  /\ epsilon = <<>>
  /\ eps_pos = None
  /\ g_rng = 0
  /\ t = <<>>
  /\ t_decoded = <<>>
  /\ rc_loss = <<>>
  /\ kl_loss = <<>>
  /\ loss = None
  /\ prev = <<>>
  /\ memo = NoMemo

\* no shape inference under way
ShapeIdle ==
  /\ s_pc = 0
  /\ s_in = <<>>
  /\ s_x = <<>>
  /\ s_mean = <<>>
  /\ s_log_var = <<>>
  /\ s_t = <<>>

Init ==
  /\ GraphIdle
  /\ ShapeIdle
  /\ latent_dim \in LatentDims
  /\ batch_size \in 0..MaxBatch
  /\ epochs \in 1..MaxEpochs
  /\ x_train \in 1..MaxTrain
  /\ pc = "config"
  /\ vae = FALSE
  /\ params = 0
  /\ epoch = 0
  /\ index_array = <<>>
  /\ batch_index = 0
  /\ fed = [i \in 1..x_train |-> 0]
  /\ steps = 0
  /\ read_params = None
  /\ rng = 0
  /\ draws = <<>>
  /\ batch_loss = None
  /\ totals = ZeroTotals
  /\ epoch_logs = NoLogs
  /\ history = <<>>

(***************************************************************************)
(* Cell 4: create_encoder, create_decoder, create_sampler, Model(...)      *)
(***************************************************************************)
\* Dense(latent_dim) / Input(shape=(latent_dim,)): a negative size cannot be
\* allocated; nothing in the notebook checks latent_dim or batch_size
ConstructOutcome(ld) == IF ld < 0 THEN "rejected" ELSE "built"

Construct ==
  /\ pc = "config"
  /\ pc' = ConstructOutcome(latent_dim)
  /\ vae' = (ConstructOutcome(latent_dim) = "built")
  /\ UNCHANGED <<aux, config, params, epoch, index_array, batch_index, fed, steps,
                 read_params, rng, draws, batch_loss, totals, epoch_logs, history>>

(***************************************************************************)
(* Cell 6: vae.compile(optimizer='rmsprop', loss=neg_variational_lower_bound) *)
(***************************************************************************)
Compile ==
  /\ pc = "built"
  /\ pc' = "compiled"
  /\ UNCHANGED <<aux, config, vae, params, epoch, index_array, batch_index, fed, steps,
                 read_params, rng, draws, batch_loss, totals, epoch_logs, history>>

(***************************************************************************)
(* Cell 6: vae.fit(x_train, x_train, epochs, shuffle=True, batch_size,     *)
(*                 validation_data=(x_test, x_test))                       *)
(***************************************************************************)
\* make_batches divides by batch_size: batch_size = 0 raises
FitBegin ==
  /\ pc = "compiled"
  /\ pc' = IF batch_size <= 0 THEN "failed" ELSE "epoch_begin"
  /\ UNCHANGED <<aux, config, vae, params, epoch, index_array, batch_index, fed, steps,
                 read_params, rng, draws, batch_loss, totals, epoch_logs, history>>

\* for epoch in range(epochs): shuffle, make_batches
EpochBegin ==
  /\ pc = "epoch_begin"
  /\ epoch < epochs
  /\ index_array' \in Permutations_(x_train)
  /\ batch_index' = 0
  /\ fed' = [i \in 1..x_train |-> 0]
  /\ steps' = 0
  /\ totals' = ZeroTotals
  /\ epoch_logs' = NoLogs
  /\ pc' = "forward"
  /\ UNCHANGED <<aux, config, vae, params, epoch, read_params, rng, draws,
                 batch_loss, history>>

\* train_function, forward part: encoder -> sampler -> decoder on the batch
Forward ==
  /\ pc = "forward"
  /\ read_params' = params
  /\ draws' = Append(draws, rng)
  /\ rng' = next_draw(rng)
  /\ fed' = [i \in 1..x_train |->
               IF i \in batch_ids(index_array, x_train, batch_index, batch_size)
               THEN fed[i] + 1 ELSE fed[i]]
  /\ pc' = "loss"
  /\ UNCHANGED <<aux, config, vae, params, epoch, index_array, batch_index, steps,
                 batch_loss, totals, epoch_logs, history>>

\* train_function, loss part: neg_variational_lower_bound on the batch
Loss ==
  /\ pc = "loss"
  /\ batch_loss' \in LossVals
  /\ pc' = "update"
  /\ UNCHANGED <<aux, config, vae, params, epoch, index_array, batch_index, fed, steps,
                 read_params, rng, draws, totals, epoch_logs, history>>

\* the optimizer's new weights, computed from the weights the forward pass read
rmsprop(read) == read + 1

\* number of images in slice i
batch_len(size, i, bs) == batch_end(size, i, bs) - batch_start(i, bs)

\* train_function, update part, then the loop's bookkeeping
Update ==
  /\ pc = "update"
  /\ params' = rmsprop(read_params)
  /\ steps' = steps + 1
  /\ batch_loss' = None
  /\ read_params' = None
  /\ LET tot == Accumulate(totals, batch_loss,
                            batch_len(x_train, batch_index, batch_size))
     IN IF is_last_batch(batch_index, x_train, batch_size)
          THEN /\ epoch_logs' = [epoch_logs EXCEPT !.loss = Average(tot)]
               /\ totals' = ZeroTotals
               /\ batch_index' = 0
               /\ pc' = "val_forward"
          ELSE /\ totals' = tot
               /\ batch_index' = batch_index + 1
               /\ pc' = "forward"
               /\ UNCHANGED epoch_logs
  /\ UNCHANGED <<aux, config, vae, epoch, index_array, fed, rng, draws, history>>

(***************************************************************************)
(* test_loop on (x_test, x_test), run after the epoch's last mini-batch    *)
(***************************************************************************)
\* test_function, forward part: same graph, sampler included
ValForward ==
  /\ pc = "val_forward"
  /\ read_params' = params
  /\ draws' = Append(draws, rng)
  /\ rng' = next_draw(rng)
  /\ epoch_logs' = [epoch_logs EXCEPT !.val_read = @ \cup {params}]
  /\ pc' = "val_loss"
  /\ UNCHANGED <<aux, config, vae, params, epoch, index_array, batch_index, fed, steps,
                 batch_loss, totals, history>>

\* faulty variant: the validation pass applies the optimizer's updates too
test_updates_train(p) == p + 1

\* what test_function does to the weights: nothing (it has no updates)
test_updates(p) == p

\* test_function, loss part, then test_loop's bookkeeping
ValLoss ==
  /\ pc = "val_loss"
  /\ params' = test_updates(params)
  /\ read_params' = None
  /\ \E l \in LossVals :
       LET tot == Accumulate(totals, l, batch_len(ValSize, batch_index, batch_size))
       IN IF is_last_batch(batch_index, ValSize, batch_size)
            THEN /\ epoch_logs' = [epoch_logs EXCEPT !.val_loss = Average(tot)]
                 /\ totals' = ZeroTotals
                 /\ batch_index' = 0
                 /\ pc' = "epoch_end"
            ELSE /\ totals' = tot
                 /\ batch_index' = batch_index + 1
                 /\ pc' = "val_forward"
                 /\ UNCHANGED epoch_logs
  /\ UNCHANGED <<aux, config, vae, epoch, index_array, fed, steps, rng, draws,
                 batch_loss, history>>

\* callbacks.on_epoch_end(epoch, epoch_logs): History and the verbose=2 logger
\* record the pair; then the loop tests model.stop_training
EpochEnd ==
  /\ pc = "epoch_end"
  /\ history' = Append(history, [epoch    |-> epoch,
                                 loss     |-> epoch_logs.loss,
                                 val_loss |-> epoch_logs.val_loss,
                                 val_read |-> epoch_logs.val_read,
                                 params   |-> params,
                                 steps    |-> steps,
                                 fed      |-> fed])
  /\ epoch' = epoch + 1
  /\ pc' = IF stop_training(epoch_logs) \/ epoch + 1 >= epochs
             THEN "done" ELSE "epoch_begin"
  /\ UNCHANGED <<aux, config, vae, params, index_array, batch_index, fed, steps,
                 read_params, rng, draws, batch_loss, totals, epoch_logs>>

Next ==
  \/ Construct
  \/ Compile
  \/ FitBegin
  \/ EpochBegin
  \/ Forward
  \/ Loss
  \/ Update
  \/ ValForward
  \/ ValLoss
  \/ EpochEnd

Spec == Init /\ [][Next]_vars

(***************************************************************************)
(* The compiled graph on one fed batch: encoder -> sampler -> decoder ->   *)
(* neg_variational_lower_bound.  Reals are fixed-point numbers in units of *)
(* 1/Unit; exp, sqrt and log are tabulated on the values that occur.  The  *)
(* weights are opaque, so what encoder and decoder return for a batch is   *)
(* any tensor of the right shape over MeanVals, LogVarVals and ProbVals.   *)
(***************************************************************************)
Unit == 10 * 10 * 10

PixelVals  == {0, Unit}            \* black and white pixels
ProbVals   == {250, 750}           \* sigmoid outputs 0.25 and 0.75
MeanVals   == {0, Unit}            \* 0.0 and 1.0
LogVarVals == {0, 1386}            \* log 1 and log 4
EpsVals    == {0 - Unit, Unit}     \* draws -1.0 and 1.0

\* rows and columns of an image, and the latent axes, in the model
ImgRows   == {1}
ImgCols   == {1}
LatentIdx == {1, 2}

\* sizes of the batch SpecGraph feeds; the batch axis is SpecLoss's subject
GraphBatches == {1}

RECURSIVE SumSeq(_)
SumSeq(sq) == IF sq = <<>> THEN 0 ELSE sq[1] + SumSeq(Tail(sq))

RECURSIVE Concat(_)
Concat(sqs) == IF sqs = <<>> THEN <<>> ELSE sqs[1] \o Concat(Tail(sqs))

\* K.exp on LogVarVals
K_exp(v) == CASE v = 0 -> Unit [] v = 1386 -> 4 * Unit

\* K.sqrt on the range of K_exp
K_sqrt(v) == CASE v = Unit -> Unit [] v = 4 * Unit -> 2 * Unit

\* K.square
K_square(v) == (v * v) \div Unit

\* natural logarithm on ProbVals
Ln(q) == CASE q = 250 -> 0 - 1386 [] q = 750 -> 0 - 288

\* K.binary_crossentropy(target, output), elementwise
K_binary_crossentropy(target, output) ==
  (0 - (target * Ln(output) + (Unit - target) * Ln(Unit - output))) \div Unit

\* K.batch_flatten: each example's rows laid end to end
K_batch_flatten(b) == [i \in DOMAIN b |-> Concat(b[i])]

\* K.sum(m, axis=-1)
K_sum(m) == [i \in DOMAIN m |-> SumSeq(m[i])]

\* faulty variant: the batch is summed, not averaged
K_mean_as_sum(v) == SumSeq(v)

\* K.mean over the batch
K_mean(v) == SumSeq(v) \div Len(v)

\* rc_loss: lines 166-168
reconstruction_loss(xb, tdb) ==
  K_sum([i \in DOMAIN xb |->
           [q \in DOMAIN K_batch_flatten(xb)[i] |->
              K_binary_crossentropy(K_batch_flatten(xb)[i][q],
                                    K_batch_flatten(tdb)[i][q])]])

\* kl_loss: lines 171-173; t_mean and t_log_var are the module-scope tensors,
\* not arguments
regularization_loss ==
  [i \in DOMAIN t_mean |->
     (0 - SumSeq([d \in DOMAIN t_mean[i] |->
                    Unit + t_log_var[i][d] - K_square(t_mean[i][d])
                         - K_exp(t_log_var[i][d])])) \div 2]

\* K.mean(rc_loss + kl_loss): line 176
neg_variational_lower_bound(rc, kl) ==
  K_mean([i \in DOMAIN rc |-> rc[i] + kl[i]])

\* sample(args): lines 120-123, elementwise
sample(mean, log_var, eps) ==
  [i \in DOMAIN mean |->
     [d \in DOMAIN mean[i] |->
        mean[i][d] + (K_sqrt(K_exp(log_var[i][d])) * eps[i][d]) \div Unit]]

\* image batches of n examples, and what the networks can return for them
Images(n)   == [1..n -> [ImgRows -> [ImgCols -> PixelVals]]]
Recons(n)   == [1..n -> [ImgRows -> [ImgCols -> ProbVals]]]
Means(n)    == [1..n -> [LatentIdx -> MeanVals]]
LogVars(n)  == [1..n -> [LatentIdx -> LogVarVals]]
Noise(n)    == [1..n -> [LatentIdx -> EpsVals]]

\* encoder and decoder are functions of their weights and their input: an
\* input already seen under the current weights gets the same output again
EncoderOutputs(xb) ==
  IF \E e \in memo.enc : e.in = xb
    THEN {e.out : e \in {m \in memo.enc : m.in = xb}}
    ELSE [t_mean : Means(Len(xb)), t_log_var : LogVars(Len(xb))]

DecoderOutputs(tb) ==
  IF \E e \in memo.dec : e.in = tb
    THEN {e.out : e \in {m \in memo.dec : m.in = tb}}
    ELSE Recons(Len(tb))

\* the run of the notebook is not part of the graph specifications
RunIdle ==
  /\ latent_dim = 2
  /\ batch_size = 1
  /\ epochs = 1
  /\ x_train = 1
  /\ pc = "idle"
  /\ vae = TRUE
  /\ params = 0
  /\ epoch = 0
  /\ index_array = <<>>
  /\ batch_index = 0
  /\ fed = <<0>>
  /\ steps = 0
  /\ read_params = None
  /\ rng = 0
  /\ draws = <<>>
  /\ batch_loss = None
  /\ totals = ZeroTotals
  /\ epoch_logs = NoLogs
  /\ history = <<>>

\* SpecGraph executes the graph on one batch again and again, as fit does
\* with a mini-batch from epoch to epoch
FedBatches ==
  IF prev = <<>> THEN UNION {Images(n) : n \in GraphBatches} ELSE {prev[1].x}

\* feed_dict: a batch enters the graph, for a train or a test step
Feed ==
  /\ g_pc = "ready"
  /\ runs < MaxRuns
  /\ mode' \in {"train", "test"}
  /\ x' \in FedBatches
  /\ g_pc' = "fed"
  /\ UNCHANGED <<runs, t_mean, t_log_var, epsilon, eps_pos, g_rng, t, t_decoded,
                 rc_loss, kl_loss, loss, prev, memo, runv, shapev>>

\* t_mean, t_log_var = encoder(x): line 143
Encode ==
  /\ g_pc = "fed"
  /\ \E out \in EncoderOutputs(x) :
       /\ t_mean' = out.t_mean
       /\ t_log_var' = out.t_log_var
       /\ memo' = [memo EXCEPT !.enc = @ \cup {[in |-> x, out |-> out]}]
  /\ g_pc' = "encoded"
  /\ UNCHANGED <<mode, runs, x, epsilon, eps_pos, g_rng, t, t_decoded,
                 rc_loss, kl_loss, loss, prev, runv, shapev>>

\* t = sampler([t_mean, t_log_var]): line 144
Sample ==
  /\ g_pc = "encoded"
  /\ \E eps \in Noise(Len(x)) :
       /\ epsilon' = eps
       /\ t' = sample(t_mean, t_log_var, eps)
  /\ eps_pos' = g_rng
  /\ g_rng' = next_draw(g_rng)
  /\ g_pc' = "sampled"
  /\ UNCHANGED <<mode, runs, x, t_mean, t_log_var, t_decoded,
                 rc_loss, kl_loss, loss, prev, memo, runv, shapev>>

\* t_decoded = decoder(t): line 145
Decode ==
  /\ g_pc = "sampled"
  /\ \E out \in DecoderOutputs(t) :
       /\ t_decoded' = out
       /\ memo' = [memo EXCEPT !.dec = @ \cup {[in |-> t, out |-> out]}]
  /\ g_pc' = "decoded"
  /\ UNCHANGED <<mode, runs, x, t_mean, t_log_var, epsilon, eps_pos, g_rng, t,
                 rc_loss, kl_loss, loss, prev, runv, shapev>>

\* loss=neg_variational_lower_bound: the loss is evaluated on (x, t_decoded)
Score ==
  /\ g_pc = "decoded"
  /\ rc_loss' = reconstruction_loss(x, t_decoded)
  /\ kl_loss' = regularization_loss
  /\ loss' = neg_variational_lower_bound(reconstruction_loss(x, t_decoded),
                                         regularization_loss)
  /\ g_pc' = "scored"
  /\ UNCHANGED <<mode, runs, x, t_mean, t_log_var, epsilon, eps_pos, g_rng, t,
                 t_decoded, prev, memo, runv, shapev>>

\* the execution returns: a train step has applied the optimizer's update
\* (new weights), a test step has not; the tensors are kept for comparison
Finish ==
  /\ g_pc = "scored"
  /\ memo' = IF mode = "train" THEN NoMemo ELSE memo
  /\ prev' = <<[x |-> x, t_mean |-> t_mean, t_log_var |-> t_log_var,
                epsilon |-> epsilon, eps_pos |-> eps_pos, t |-> t,
                t_decoded |-> t_decoded, loss |-> loss]>>
  /\ runs' = runs + 1
  /\ g_pc' = "ready"
  /\ mode' = "none"
  /\ x' = <<>>
  /\ t_mean' = <<>>
  /\ t_log_var' = <<>>
  /\ epsilon' = <<>>
  /\ eps_pos' = None
  /\ t' = <<>>
  /\ t_decoded' = <<>>
  /\ rc_loss' = <<>>
  /\ kl_loss' = <<>>
  /\ loss' = None
  /\ UNCHANGED <<g_rng, runv, shapev>>

\* SpecGraph: repeated train and test steps of the compiled vae
InitGraph ==
  /\ RunIdle
  /\ ShapeIdle
  /\ g_pc = "ready"
  /\ mode = "none"
  /\ runs = 0
  /\ x = <<>>
  /\ t_mean = <<>>
  /\ t_log_var = <<>>
  /\ epsilon = <<>>
  /\ eps_pos = None
  /\ g_rng = 0
  /\ t = <<>>
  /\ t_decoded = <<>>
  /\ rc_loss = <<>>
  /\ kl_loss = <<>>
  /\ loss = None
  /\ prev = <<>>
  /\ memo = NoMemo

NextGraph ==
  \/ Feed
  \/ Encode
  \/ Sample
  \/ Decode
  \/ Score
  \/ Finish

SpecGraph == InitGraph /\ [][NextGraph]_vars

\* SpecLoss: neg_variational_lower_bound applied once to any batch of up to
\* MaxN examples, with any statistics and any reconstruction
InitLoss ==
  /\ RunIdle
  /\ ShapeIdle
  /\ g_pc = "decoded"
  /\ mode = "train"
  /\ runs = 0
  /\ \E n \in 1..MaxN :
       /\ x \in Images(n)
       /\ t_mean \in Means(n)
       /\ t_log_var \in LogVars(n)
       /\ t_decoded \in Recons(n)
  /\ epsilon = <<>>
  /\ eps_pos = None
  /\ g_rng = 0
  /\ t = <<>>
  /\ rc_loss = <<>>
  /\ kl_loss = <<>>
  /\ loss = None
  /\ prev = <<>>
  /\ memo = NoMemo

NextLoss == Score

SpecLoss == InitLoss /\ [][NextLoss]_vars

(***************************************************************************)
(* Shapes along the composed model (cells 2 and 4), for a batch of n       *)
(* images.  A shape is the tuple Keras reports, batch axis first.          *)
(***************************************************************************)
image_shape == <<28, 28, 1>>

\* faulty variant: padding='valid': a 3x3 kernel loses a border
conv_valid(len, stride) == ((len - 3) \div stride) + 1

\* output length of a convolution with padding='same'
conv_same(len, stride) == (len + stride - 1) \div stride

\* layers.Conv2D(filters, 3, padding='same', strides=(stride, stride))
Conv2D(sh, filters, stride) ==
  <<sh[1], conv_same(sh[2], stride), conv_same(sh[3], stride), filters>>

\* layers.Conv2DTranspose(filters, 3, padding='same', strides=(stride, stride))
Conv2DTranspose(sh, filters, stride) ==
  <<sh[1], sh[2] * stride, sh[3] * stride, filters>>

\* layers.Flatten()
Flatten(sh) == <<sh[1], sh[2] * sh[3] * sh[4]>>

\* layers.Dense(units)
Dense(sh, units) == <<sh[1], units>>

\* layers.Reshape(target): only sizes that match can be reshaped
Reshape(sh, target) ==
  IF sh[2] = target[1] * target[2] * target[3]
    THEN <<sh[1]>> \o target
    ELSE <<>>

\* the layers of create_encoder, in order, up to the two heads
EncoderLayer(k, sh) ==
  CASE k = 1 -> Conv2D(sh, 32, 1)
    [] k = 2 -> Conv2D(sh, 64, 2)
    [] k = 3 -> Conv2D(sh, 64, 1)
    [] k = 4 -> Conv2D(sh, 64, 1)
    [] k = 5 -> Flatten(sh)
    [] k = 6 -> Dense(sh, 32)

\* the layers of create_decoder, in order
DecoderLayer(k, sh) ==
  CASE k = 1 -> Dense(sh, 12544)
    [] k = 2 -> Reshape(sh, <<14, 14, 64>>)
    [] k = 3 -> Conv2DTranspose(sh, 32, 2)
    [] k = 4 -> Conv2D(sh, 1, 1)

EncoderDepth == 6
DecoderDepth == 4

\* encoder_iput = layers.Input(shape=image_shape), fed n images
InitShape ==
  /\ RunIdle
  /\ GraphIdle
  /\ \E n \in 1..MaxShapeBatch : s_in = <<n>> \o image_shape
  /\ s_x = s_in
  /\ s_pc = 0
  /\ s_mean = <<>>
  /\ s_log_var = <<>>
  /\ s_t = <<>>

\* one hidden layer of the encoder
EncoderStep ==
  /\ s_pc < EncoderDepth
  /\ s_x' = EncoderLayer(s_pc + 1, s_x)
  /\ s_pc' = s_pc + 1
  /\ UNCHANGED <<s_in, s_mean, s_log_var, s_t, runv, graphv>>

\* t_mean = Dense(latent_dim)(x); t_log_var = Dense(latent_dim)(x)
EncoderHeads ==
  /\ s_pc = EncoderDepth
  /\ s_mean' = Dense(s_x, latent_dim)
  /\ s_log_var' = Dense(s_x, latent_dim)
  /\ s_pc' = s_pc + 1
  /\ UNCHANGED <<s_in, s_x, s_t, runv, graphv>>

\* sampler: epsilon has K.shape(t_mean); the sum broadcasts elementwise
SamplerShape ==
  /\ s_pc = EncoderDepth + 1
  /\ s_t' = s_mean
  /\ s_x' = s_mean
  /\ s_pc' = s_pc + 1
  /\ UNCHANGED <<s_in, s_mean, s_log_var, runv, graphv>>

\* one layer of the decoder, fed the sampler's output
DecoderStep ==
  /\ s_pc > EncoderDepth + 1
  /\ s_pc < EncoderDepth + 2 + DecoderDepth
  /\ s_x' = DecoderLayer(s_pc - EncoderDepth - 1, s_x)
  /\ s_pc' = s_pc + 1
  /\ UNCHANGED <<s_in, s_mean, s_log_var, s_t, runv, graphv>>

NextShape ==
  \/ EncoderStep
  \/ EncoderHeads
  \/ SamplerShape
  \/ DecoderStep

SpecShape == InitShape /\ [][NextShape]_vars

(***************************************************************************)
(* The notebook's own run of vae.fit: 60000 images, batch_size 128,        *)
(* 25 epochs.  SpecBatches walks the mini-batches make_batches cuts, each  *)
(* step being one optimizer step.                                          *)
(***************************************************************************)
TrainSamples == 60000
NotebookBatchSize == 128
NotebookEpochs == 25

InitBatches ==
  /\ GraphIdle
  /\ ShapeIdle
  /\ latent_dim = 2
  /\ batch_size = NotebookBatchSize
  /\ epochs = NotebookEpochs
  /\ x_train = TrainSamples
  /\ pc = "batches"
  /\ vae = TRUE
  /\ params = 0
  /\ epoch = 0
  /\ index_array = <<>>
  /\ batch_index = 0
  /\ fed = <<>>
  /\ steps = 0
  /\ read_params = None
  /\ rng = 0
  /\ draws = <<>>
  /\ batch_loss = None
  /\ totals = ZeroTotals
  /\ epoch_logs = NoLogs
  /\ history = <<>>

\* the optimizer step on the running mini-batch, then on to the next one
BatchStep ==
  /\ pc = "batches"
  /\ params' = rmsprop(params)
  /\ IF is_last_batch(batch_index, x_train, batch_size)
       THEN /\ batch_index' = 0
            /\ steps' = 0
            /\ epoch' = epoch + 1
            /\ pc' = IF epoch + 1 >= epochs THEN "done" ELSE "batches"
       ELSE /\ batch_index' = batch_index + 1
            /\ steps' = steps + 1
            /\ UNCHANGED <<epoch, pc>>
  /\ UNCHANGED <<aux, config, vae, index_array, fed, read_params, rng, draws,
                 batch_loss, totals, epoch_logs, history>>

NextBatches == BatchStep

SpecBatches == InitBatches /\ [][NextBatches]_vars

(***************************************************************************)
(* Properties of the training loop (checked under Spec)                    *)
(***************************************************************************)
Running == pc \in {"epoch_begin", "forward", "loss", "update",
                   "val_forward", "val_loss", "epoch_end"}

InEpoch == pc \in {"forward", "loss", "update", "val_forward", "val_loss", "epoch_end"}

\* C1: a run with E configured epochs performs exactly E passes and then
\* stops, whatever the losses are (finite or NaN): it is never stuck or
\* finished before epoch E is logged, and no epoch beyond E is ever started.
C1_ExactlyEpochs ==
  /\ InEpoch => epoch < epochs
  /\ Running => ENABLED Next
  /\ Len(history) <= epochs
  /\ pc = "done" => /\ epoch = epochs
                    /\ Len(history) = epochs
                    /\ ~ ENABLED Next

\* a full run in which a non-final epoch logged a non-finite loss
C1_Witness ==
  /\ pc = "done"
  /\ epochs = MaxEpochs
  /\ history[1].loss = NaN
  /\ history[1].val_loss = NaN

\* C2: in every epoch the mini-batches partition the training set (each
\* image is fed exactly once) and there is exactly one optimizer step per
\* mini-batch.
C2_Partition ==
  /\ \A i \in 1..x_train : fed[i] <= 1
  /\ pc = "forward" => steps = batch_index
  /\ pc \in {"loss", "update"} =>
        /\ steps = batch_index
        /\ Cardinality({i \in 1..x_train : fed[i] = 1}) = batch_end(x_train, batch_index, batch_size)
  /\ pc \in {"val_forward", "val_loss", "epoch_end"} =>
        /\ \A i \in 1..x_train : fed[i] = 1
        /\ steps = num_batches(x_train, batch_size)
  /\ \A k \in 1..Len(history) :
        /\ \A i \in 1..x_train : history[k].fed[i] = 1
        /\ history[k].steps = num_batches(x_train, batch_size)

\* an epoch of two mini-batches (the last one partial), shuffled, is complete
C2_Witness ==
  /\ pc = "epoch_end"
  /\ x_train = 3
  /\ batch_size = 2
  /\ index_array = <<3, 1, 2>>
  /\ steps = 2

\* C3: the log holds one (loss, val_loss) pair per epoch, in epoch order;
\* the pair of epoch k is produced after all mini-batches of epoch k had
\* their optimizer step and before any mini-batch of epoch k+1, and its
\* validation loss was evaluated with the parameters left by the last
\* update of epoch k.
C3_EpochLog ==
  /\ Len(history) = epoch
  /\ \A k \in 1..Len(history) :
        LET nb == num_batches(x_train, batch_size)
        IN /\ history[k].epoch = k - 1
           /\ history[k].loss # None
           /\ history[k].val_loss # None
           /\ history[k].steps = nb
           /\ history[k].params = k * nb
           /\ history[k].val_read = {k * nb}

\* two epochs of several mini-batches have been logged
C3_Witness ==
  /\ Len(history) = 2
  /\ num_batches(x_train, batch_size) >= 2
  /\ history[2].val_read = {2 * num_batches(x_train, batch_size)}

\* C7 (as claimed): with a non-positive latent_dim or batch_size no model is
\* built and no forward pass or optimizer update is ever performed.
C7_InvalidConfigRejected ==
  (latent_dim <= 0 \/ batch_size <= 0) =>
     /\ ~ vae
     /\ ~ Running
     /\ rng = 0
     /\ params = 0

\* C10: the parameters change only in the optimizer step that ends a
\* mini-batch, by exactly that one update; forward pass, loss, reporting and
\* the whole validation pass leave them unchanged; and a forward pass always
\* works on the parameters as left by the previous mini-batch's update.
C10_OnlyOptimizerWrites ==
  [][ /\ (params' # params => pc = "update" /\ params' = params + 1)
      /\ (pc \in {"loss", "update", "val_loss"} => read_params = params)
      /\ (pc' = "loss" => read_params' = epoch' * num_batches(x_train, batch_size)
                                          + batch_index')
    ]_vars

\* a validation pass is under way after several updates
C10_Witness ==
  /\ pc = "val_loss"
  /\ batch_index = 1
  /\ params >= 2
  /\ epoch = 1

(***************************************************************************)
(* Properties of the loss (checked under SpecLoss)                         *)
(***************************************************************************)
RECURSIVE SumOver(_, _)
SumOver(S, f) ==
  IF S = {} THEN 0
  ELSE LET e == CHOOSE e \in S : TRUE IN f[e] + SumOver(S \ {e}, f)

\* -log(q) for the probabilities of the model
NegLog(q) == IF q = 250 THEN 1386 ELSE 288

\* example i's reconstruction term: over all pixels, -log of the probability
\* the reconstruction gives to the pixel's actual colour
PerExampleRC(i) ==
  SumOver(ImgRows \X ImgCols,
          [rc \in ImgRows \X ImgCols |->
             IF x[i][rc[1]][rc[2]] = Unit
               THEN NegLog(t_decoded[i][rc[1]][rc[2]])
               ELSE NegLog(Unit - t_decoded[i][rc[1]][rc[2]])])

\* example i's KL term: 0.5 * sum over the latent axes of
\* (mean^2 + exp(log_var) - 1 - log_var)
PerExampleKL(i) ==
  SumOver(LatentIdx,
          [d \in LatentIdx |->
             (IF t_mean[i][d] = 0 THEN 0 ELSE Unit)
             + (IF t_log_var[i][d] = 0 THEN Unit ELSE 4 * Unit)
             - Unit - t_log_var[i][d]]) \div 2

\* C4: for every batch the returned scalar is the batch mean of
\* (per-example reconstruction term + per-example KL term), both with
\* weight 1, over exactly the examples of the batch.
C4_LossIsBatchMean ==
  g_pc = "scored" =>
    LET n == Len(x)
        total == SumOver(1..n, [i \in 1..n |-> PerExampleRC(i) + PerExampleKL(i)])
    IN /\ \A i \in 1..n : rc_loss[i] = PerExampleRC(i)
       /\ \A i \in 1..n : kl_loss[i] = PerExampleKL(i)
       /\ n * loss <= total
       /\ total < n * (loss + 1)

\* a batch of two examples that differ in both terms has been scored
C4_Witness ==
  /\ g_pc = "scored"
  /\ Len(x) = 2
  /\ rc_loss[1] > rc_loss[2]
  /\ kl_loss[1] < kl_loss[2]
  /\ kl_loss[1] > 0

(***************************************************************************)
(* Properties of the graph execution (checked under SpecGraph)             *)
(***************************************************************************)
Sampled == g_pc \in {"sampled", "decoded", "scored"}

C8_LossReadsOnlyArguments ==
  (g_pc = "scored" /\ prev # <<>>) =>
     ((prev[1].x = x /\ prev[1].t_decoded = t_decoded) => prev[1].loss = loss)

(***************************************************************************)
(* Properties of the shapes (checked under SpecShape)                      *)
(***************************************************************************)
\* C5: for every batch size n >= 1 the shapes agree along the pipeline:
\* 28 -> 14 by the stride-2 convolution, 12544 = 14 * 14 * 64 after Flatten,
\* mean, log_variance and sample are (n, 2), and the reconstruction is
\* (n, 28, 28, 1), the shape of the input batch.
C5_ShapesAgree ==
  s_in # <<>> =>
    LET n == s_in[1]
    IN /\ n >= 1
       /\ s_pc = 1 => s_x = <<n, 28, 28, 32>>
       /\ s_pc \in 2..4 => s_x = <<n, 14, 14, 64>>
       /\ s_pc = 5 => s_x = <<n, 12544>>
       /\ s_pc >= 7 => s_mean = <<n, 2>> /\ s_log_var = <<n, 2>>
       /\ s_pc >= 8 => s_t = <<n, 2>>
       /\ s_pc = 9 => s_x = <<n, 12544>>
       /\ s_pc = 10 => s_x = <<n, 14, 14, 64>>
       /\ s_pc = 11 => s_x = <<n, 28, 28, 32>>
       /\ s_pc = 12 => s_x = <<n, 28, 28, 1>> /\ s_x = s_in

\* a batch of four images has passed through the whole model
C5_Witness ==
  /\ s_pc = 12
  /\ s_in = <<4, 28, 28, 1>>
  /\ s_x = s_in
  /\ s_t = <<4, 2>>

(***************************************************************************)
(* Properties of the notebook's mini-batches (checked under SpecBatches)   *)
(***************************************************************************)
\* C9 (as claimed): every mini-batch that gets an optimizer step holds
\* exactly batch_size = 128 images, the last one of an epoch included.
C9_FixedBatchSize ==
  pc = "batches" => batch_len(x_train, batch_index, batch_size) = batch_size

\* C9 (amended): in every epoch the first 468 mini-batches hold 128 images
\* and the 469th, the last, holds the remaining 96.
C9_AllButLastFull ==
  pc = "batches" =>
    /\ batch_index <= 468
    /\ batch_index < 468 => /\ batch_len(x_train, batch_index, batch_size) = 128
                            /\ ~ is_last_batch(batch_index, x_train, batch_size)
    /\ batch_index = 468 => /\ batch_len(x_train, batch_index, batch_size) = 96
                            /\ is_last_batch(batch_index, x_train, batch_size)

\* the last mini-batch of the last epoch is about to get its step
C9_Witness ==
  /\ pc = "batches"
  /\ epoch = 24
  /\ batch_index = 468
  /\ batch_len(x_train, batch_index, batch_size) = 96

====
